---- MODULE Spec2Model ----
(***************************************************************************)
(* Model of the flight-search streaming generator of src/src/app.py:       *)
(* search_flights builds a request, generate_results walks dates x origins,*)
(* queries the upstream price source, filters, sorts and yields events.    *)
(*                                                                         *)
(* A datetime is an integer number of hours since a Monday 00:00; a        *)
(* timedelta of n days is n * HoursPerDay.  Strings are TLA+ strings.      *)
(***************************************************************************)
EXTENDS Integers, Sequences, FiniteSets, TLC

VARIABLES
    args,               \* request.args: the query string as received
    response,           \* what the client has of the HTTP response
    data,               \* the request's string-tagged fields (tripType, adults, teens, children)
    start_date,         \* datetime, midnight
    end_date,           \* datetime, midnight
    min_days,
    max_days,
    origin_codes,       \* list of origin codes, in the caller's order
    wanted_countries,   \* list of country substrings
    total_passengers,
    maximum_price,
    pc,                 \* position of the generator
    current_date,       \* the date cursor (datetime, midnight)
    origin_idx,         \* position of the for-loop over origin_codes
    flights_found,
    seen_flights,       \* set of flight ids (oneWay only)
    pending,            \* rest of sorted(filtered_trips) still to be visited
    calls,              \* history: upstream queries issued, with their outcome
    stream              \* history: events yielded to the client

vars == <<args, response, data, start_date, end_date, min_days, max_days, origin_codes,
          wanted_countries, total_passengers, maximum_price, pc, current_date,
          origin_idx, flights_found, seen_flights, pending, calls, stream>>

request == <<args, data, start_date, end_date, min_days, max_days, origin_codes,
             wanted_countries, total_passengers, maximum_price>>

\* what a step of the generator leaves alone
exchange == <<request, response>>

----------------------------------------------------------------------------
(* Calendar *)

HoursPerDay == 24

timedelta(days) == days * HoursPerDay

\* datetime.date(): the calendar day of a datetime
date(t) == t \div HoursPerDay

\* datetime.weekday(): Monday is 0, Sunday is 6
weekday(t) == date(t) % 7

\* datetime.isoformat(), as <day>T<hour>
isoformat(t) == ToString(date(t)) \o "T" \o ToString(t % HoursPerDay)

\* datetime.strptime(s, '%Y-%m-%d') of day number d: midnight of that day
strptime(d) == d * HoursPerDay

\* faulty variant: the second argument is taken whatever the first
Min_Second(a, b) == b

Min(a, b) == IF a <= b THEN a ELSE b

----------------------------------------------------------------------------
(* WeekendMode and the weekday predicates *)

WeekendModes == {"weekend", "longWeekend"}

\* faulty variant: the outbound and the inbound weekdays are taken for each other
is_valid_weekend_day_Swapped(t, mode, is_outbound) ==
    IF mode = "weekend"
    THEN IF is_outbound THEN weekday(t) \in {5, 6} ELSE weekday(t) \in {4, 5}
    ELSE IF is_outbound THEN weekday(t) \in {6, 0} ELSE weekday(t) \in {3, 4, 5}

is_valid_weekend_day(t, mode, is_outbound) ==
    IF mode = "weekend"
    THEN IF is_outbound THEN weekday(t) \in {4, 5} ELSE weekday(t) \in {5, 6}
    ELSE IF is_outbound THEN weekday(t) \in {3, 4, 5} ELSE weekday(t) \in {6, 0}

\* faulty variant: the inbound leg is not looked at
is_valid_weekend_trip_OutboundOnly(outbound_date, inbound_date, mode) ==
    is_valid_weekend_day(outbound_date, mode, TRUE)

is_valid_weekend_trip(outbound_date, inbound_date, mode) ==
    /\ is_valid_weekend_day(outbound_date, mode, TRUE)
    /\ is_valid_weekend_day(inbound_date, mode, FALSE)

\* weekend_mode: None (here "none") unless tripType is weekend or longWeekend
weekend_mode == IF data.tripType \in WeekendModes THEN data.tripType ELSE "none"

----------------------------------------------------------------------------
(* Strings *)

\* faulty variant: letter case is ignored
RECURSIVE UpperCase(_)
UpperCase(s) ==
    IF s = "" THEN ""
    ELSE LET c == SubSeq(s, 1, 1)
             letters == "abcdefghijklmnopqrstuvwxyzABCDEFGHIJKLMNOPQRSTUVWXYZ"
         IN (IF \E k \in 1..26 : SubSeq(letters, k, k) = c
             THEN LET k == CHOOSE k \in 1..26 : SubSeq(letters, k, k) = c
                  IN SubSeq(letters, k + 26, k + 26)
             ELSE c) \o UpperCase(SubSeq(s, 2, Len(s)))
Contains_AnyCase(s, t) ==
    \E i \in 0..(Len(t) - Len(s)) :
        UpperCase(SubSeq(t, i + 1, i + Len(s))) = UpperCase(s)

\* Python's `s in t` on strings: s is a (case-sensitive) substring of t
Contains(s, t) ==
    \E i \in 0..(Len(t) - Len(s)) : SubSeq(t, i + 1, i + Len(s)) = s

\* any(country in full for country in wanted_countries)
AnyCountryIn(full) ==
    \E k \in 1..Len(wanted_countries) : Contains(wanted_countries[k], full)

----------------------------------------------------------------------------
(* The upstream price source (Ryanair client): what one query may return.   *)
(* A Flight keeps the fields the generator reads: origin, destination,      *)
(* destinationFull, departureTime, price; a Trip is totalPrice, outbound,   *)
(* inbound.                                                                  *)

MaxBatch == 2       \* a query returns at most MaxBatch candidates
MaxTrips == 2       \* the source returns at most MaxTrips candidates in a run
MaxFailures == 1    \* at most MaxFailures queries of a run fail
MaxGrid == 4        \* a request spans at most MaxGrid (date, origin) pairs

DepartureHour == 8

DestinationFull(code) == IF code = "BCN" THEN "Barcelona, Spain" ELSE "Rome, Italy"

\* <<destination, per-person price>> of the flights on sale
Fares == {<<"BCN", 1>>, <<"BCN", 2>>, <<"FCO", 1>>}

Flight(origin, destination, departureTime, price) ==
    [origin |-> origin, destination |-> destination,
     destinationFull |-> DestinationFull(destination),
     departureTime |-> departureTime, price |-> price]

Trip(origin, destination, outTime, inTime, totalPrice) ==
    [totalPrice |-> totalPrice,
     outbound |-> Flight(origin, destination, outTime, totalPrice),
     inbound |-> Flight(destination, origin, inTime, 0)]

\* Flights a one-way query for [d, d + 1 day] from `origin` may contain:
\* every fare leaving on d, and the cheapest one leaving on d + 1 day
OneWayOffers(origin, d) ==
    { Flight(origin, f[1], d + DepartureHour, f[2]) : f \in Fares } \cup
    { Flight(origin, "BCN", d + timedelta(1) + DepartureHour, 1) }

\* Pairs a return query for outbound day d from `origin` may contain: every
\* fare leaving on d and coming back on end_date and, as the source is not
\* trusted to respect the requested windows, the cheapest one leaving a day
\* late or coming back a day after end_date
ReturnOffers(origin, d) ==
    { Trip(origin, f[1], d + DepartureHour, end_date + DepartureHour, f[2]) :
        f \in Fares } \cup
    { Trip(origin, "BCN", d + timedelta(1) + DepartureHour,
           end_date + DepartureHour, 1),
      Trip(origin, "BCN", d + DepartureHour,
           end_date + timedelta(1) + DepartureHour, 1) }

SeqsUpTo(S, n) == UNION { [1..k -> S] : k \in 0..n }

RECURSIVE Returned(_)
\* number of candidates the source has returned so far
Returned(cs) == IF cs = <<>> THEN 0 ELSE Len(cs[1].trips) + Returned(Tail(cs))

\* number of queries that have failed so far
Failures(cs) == Cardinality({k \in 1..Len(cs) : ~cs[k].ok})

\* Outcomes of one query: failure (an exception), or a list of candidates
Responses(offers) ==
    (IF Failures(calls) < MaxFailures
     THEN { [ok |-> FALSE, trips |-> <<>>] } ELSE {}) \cup
    { [ok |-> TRUE, trips |-> ts] :
        ts \in SeqsUpTo(offers, Min(MaxBatch, MaxTrips - Returned(calls))) }

----------------------------------------------------------------------------
(* Filtering, ordering, identity *)

\* faulty variant: the budget is compared with the per-person price
PassesOneWay_PerPerson(trip) ==
    /\ trip.price <= maximum_price
    /\ AnyCountryIn(trip.destinationFull)

\* the one-way filter (app.py 256-260)
PassesOneWay(trip) ==
    /\ trip.price * total_passengers <= maximum_price
    /\ AnyCountryIn(trip.destinationFull)

\* faulty variant: the inbound date is not compared with the end date
PassesReturn_NoEndDate(trip) ==
    /\ trip.totalPrice * total_passengers <= maximum_price
    /\ AnyCountryIn(trip.outbound.destinationFull)
    /\ \/ weekend_mode = "none"
       \/ is_valid_weekend_trip(trip.outbound.departureTime,
                                trip.inbound.departureTime, weekend_mode)

\* the return-family filter (app.py 330-341)
PassesReturn(trip) ==
    /\ trip.totalPrice * total_passengers <= maximum_price
    /\ AnyCountryIn(trip.outbound.destinationFull)
    /\ \/ weekend_mode = "none"
       \/ is_valid_weekend_trip(trip.outbound.departureTime,
                                trip.inbound.departureTime, weekend_mode)
    /\ date(trip.inbound.departureTime) <= date(end_date)

\* the key both sorts use: x.price (app.py 265) or x.totalPrice (app.py 346)
SortKey(trip) == IF data.tripType = "oneWay" THEN trip.price ELSE trip.totalPrice

RECURSIVE Insert(_, _)
\* insert x after every element whose key is <= x's key: ties keep their order
Insert(x, s) ==
    IF s = <<>> THEN <<x>>
    ELSE IF SortKey(Head(s)) <= SortKey(x)
         THEN <<Head(s)>> \o Insert(x, Tail(s))
         ELSE <<x>> \o s

RECURSIVE SortedFrom(_, _)
SortedFrom(acc, trips) ==
    IF trips = <<>> THEN acc
    ELSE SortedFrom(Insert(Head(trips), acc), Tail(trips))

\* faulty variant: the batch is emitted in the order the source returned it
sorted_Unsorted(trips) == trips

\* sorted(trips, key=...): ascending, stable
sorted(trips) == SortedFrom(<<>>, trips)

\* faulty variant: the flag is overwritten by every batch instead of latched
Found_Overwritten(filtered_trips) == filtered_trips # <<>>

\* app.py 262-263, 343-344: flights_found is latched by a non-empty batch
Found(filtered_trips) == flights_found \/ filtered_trips # <<>>

\* faulty variant: the key leaves the origin out
flight_id_NoOrigin(trip) ==
    trip.destination \o "-" \o isoformat(trip.departureTime)

\* the dedup key (app.py 267): f"{trip.origin}-{trip.destination}-{trip.departureTime.isoformat()}"
flight_id(trip) ==
    trip.origin \o "-" \o trip.destination \o "-" \o isoformat(trip.departureTime)

----------------------------------------------------------------------------
(* Reading the query string (search_flights, app.py 153-223) *)

\* request.args is a function from the names of the parameters that are
\* present to their text; request.args.get(key) of an absent one is None,
\* which no text equals
Present(a, key) == key \in DOMAIN a

\* request.args.get(key, default)
get(a, key, default) == IF Present(a, key) THEN a[key] ELSE default

DigitChars == "0123456789"
UpperChars == "ABCDEFGHIJKLMNOPQRSTUVWXYZ"

CharAt(s, i) == SubSeq(s, i, i)
IsCharOf(c, alphabet) == \E k \in 1..Len(alphabet) : CharAt(alphabet, k) = c
Digit(c) == CHOOSE d \in 0..9 : CharAt(DigitChars, d + 1) = c
IsDecimal(s) == Len(s) > 0 /\ \A i \in 1..Len(s) : IsCharOf(CharAt(s, i), DigitChars)

RECURSIVE Decimal(_)
Decimal(s) ==
    IF s = "" THEN 0
    ELSE Decimal(SubSeq(s, 1, Len(s) - 1)) * 10 + Digit(CharAt(s, Len(s)))

\* what a conversion does: it returns a value or raises
Value(v) == [raises |-> "no", value |-> v]
Raises(e) == [raises |-> e, value |-> 0]

\* int(text): an optionally signed decimal literal, ValueError otherwise
int(s) ==
    IF IsDecimal(s) THEN Value(Decimal(s))
    ELSE IF Len(s) > 1 /\ CharAt(s, 1) = "-" /\ IsDecimal(SubSeq(s, 2, Len(s)))
         THEN Value(0 - Decimal(SubSeq(s, 2, Len(s))))
         ELSE Raises("ValueError")

\* float(text), on whole amounts
float(s) == int(s)

\* int(data[key]) and float(data[key]) (app.py 210-212, 222): data[key] is
\* None when the parameter is absent, and int(None) raises TypeError
int_of(a, key) == IF Present(a, key) THEN int(a[key]) ELSE Raises("TypeError")
float_of(a, key) == IF Present(a, key) THEN float(a[key]) ELSE Raises("TypeError")

\* datetime.strptime(text, '%Y-%m-%d') as a day number; the calendar of the
\* model is June 2024, whose 3rd is a Monday (day 0)
MonthPrefix == "2024-06-"
FirstMonday == 3
DaysInMonth == 30
ParseDay(s) ==
    IF /\ Len(s) = Len(MonthPrefix) + 2
       /\ SubSeq(s, 1, Len(MonthPrefix)) = MonthPrefix
       /\ IsDecimal(SubSeq(s, Len(MonthPrefix) + 1, Len(s)))
       /\ Decimal(SubSeq(s, Len(MonthPrefix) + 1, Len(s))) \in 1..DaysInMonth
    THEN Value(Decimal(SubSeq(s, Len(MonthPrefix) + 1, Len(s))) - FirstMonday)
    ELSE Raises("ValueError")

\* datetime.strptime(data[key], '%Y-%m-%d'): TypeError on None
day_of(a, key) == IF Present(a, key) THEN ParseDay(a[key]) ELSE Raises("TypeError")

\* app.py 58-63: only ValueError is caught
validate_date_format(a, key) ==
    IF day_of(a, key).raises = "TypeError" THEN Raises("TypeError")
    ELSE Value(day_of(a, key).raises = "no")

\* app.py 65-67: ^[A-Z]{3}$
validate_airport_code(code) ==
    Len(code) = 3 /\ \A i \in 1..3 : IsCharOf(CharAt(code, i), UpperChars)

\* text.split(','): never the empty list
RECURSIVE SplitFrom(_, _)
SplitFrom(s, word) ==
    IF s = "" THEN <<word>>
    ELSE IF CharAt(s, 1) = ","
         THEN <<word>> \o SplitFrom(SubSeq(s, 2, Len(s)), "")
         ELSE SplitFrom(SubSeq(s, 2, Len(s)), word \o CharAt(s, 1))
split(s) == SplitFrom(s, "")

\* `x and ...` on a parameter: None and '' are falsy
Truthy(a, key) == Present(a, key) /\ a[key] # ""

\* the first conversion of a try block that raises decides what is raised
RECURSIVE FirstRaised(_)
FirstRaised(rs) ==
    IF rs = <<>> THEN "no"
    ELSE IF rs[1].raises # "no" THEN rs[1].raises ELSE FirstRaised(Tail(rs))

\* app.py 160, 165, 177, 199, 206, 214, 220: jsonify({'error': ...}), 400
BadRequest(error) == [status |-> 400, error |-> error]

\* app.py 414-419: whatever else was raised
InternalServerError(type) == [status |-> 500, error |-> type]

\* app.py 169-175: the first numeric validation; absent parameters read as 0
NumericRead(a) ==
    <<float(get(a, "maxPrice", "0")), int(get(a, "adults", "0")),
      int(get(a, "teens", "0")), int(get(a, "children", "0"))>>
NumericValid(a) ==
    /\ FirstRaised(NumericRead(a)) = "no"
    /\ ~ \/ NumericRead(a)[1].value < 0
         \/ NumericRead(a)[2].value < 1
         \/ NumericRead(a)[3].value < 0
         \/ NumericRead(a)[4].value < 0

\* app.py 179-191: the dict literal has every key, whatever the query string
DataKeys ==
    {"tripType", "startDate", "endDate", "maxPrice", "minDays", "maxDays",
     "originAirports", "wantedCountries", "adults", "teens", "children"}

\* app.py 193-195
required_fields(a) ==
    {"tripType", "startDate", "maxPrice", "originAirports", "wantedCountries",
     "adults", "teens", "children"} \cup
    (IF get(a, "tripType", "None") = "return"
     THEN {"endDate", "minDays", "maxDays"} ELSE {})

\* the generator is built from these (app.py 203-223)
Accepted(a) ==
    [status |-> 200, error |-> "",
     data |-> [tripType |-> get(a, "tripType", "None"),
               adults |-> int_of(a, "adults").value,
               teens |-> int_of(a, "teens").value,
               children |-> int_of(a, "children").value],
     start_date |-> strptime(day_of(a, "startDate").value),
     end_date |-> strptime(day_of(a, "endDate").value),
     min_days |-> int_of(a, "minDays").value,
     max_days |-> int_of(a, "maxDays").value,
     origin_codes |-> split(get(a, "originAirports", "")),
     wanted_countries |-> split(get(a, "wantedCountries", "")),
     total_passengers |-> int_of(a, "adults").value + int_of(a, "teens").value
                          + int_of(a, "children").value,
     maximum_price |-> float_of(a, "maxPrice").value]

\* app.py 153-223, 414-419, in the order of the code
search_flights(a) ==
    LET origin_airports == split(get(a, "originAirports", ""))
        dates == <<day_of(a, "startDate"), day_of(a, "endDate")>>
        numbers == <<float_of(a, "maxPrice"), int_of(a, "minDays"),
                     int_of(a, "maxDays")>>
        passengers == <<int_of(a, "adults"), int_of(a, "teens"),
                        int_of(a, "children")>>
    IN  IF validate_date_format(a, "startDate").raises # "no"
        THEN InternalServerError(validate_date_format(a, "startDate").raises)
        ELSE IF \/ ~validate_date_format(a, "startDate").value
                \/ Truthy(a, "endDate") /\ ~validate_date_format(a, "endDate").value
        THEN BadRequest("Invalid date format")
        ELSE IF ~ \A k \in 1..Len(origin_airports) :
                    origin_airports[k] # "" => validate_airport_code(origin_airports[k])
        THEN BadRequest("Invalid airport code")
        ELSE IF ~NumericValid(a)
        THEN BadRequest("Invalid numeric values")
        ELSE IF \E field \in required_fields(a) : field \notin DataKeys
        THEN BadRequest("Missing required field")
        ELSE IF FirstRaised(dates) = "ValueError"
        THEN BadRequest("Invalid date format. Use YYYY-MM-DD")
        ELSE IF FirstRaised(dates) # "no"
        THEN InternalServerError(FirstRaised(dates))
        ELSE IF FirstRaised(numbers) = "ValueError"
        THEN BadRequest("Invalid numeric value")
        ELSE IF FirstRaised(numbers) # "no"
        THEN InternalServerError(FirstRaised(numbers))
        ELSE IF Accepted(a).origin_codes = <<>> \/ Accepted(a).wanted_countries = <<>>
        THEN BadRequest("Origin airports and wanted countries cannot be empty")
        ELSE IF FirstRaised(passengers) # "no"
        THEN InternalServerError(FirstRaised(passengers))
        ELSE Accepted(a)

----------------------------------------------------------------------------
(* Requests accepted by search_flights *)

TripTypes == {"oneWay", "return", "weekend", "longWeekend"}

\* <<startDate, endDate>> as day numbers (day 0 is a Monday): one or two days
\* from a Thursday, Friday or Saturday, and Saturday to Monday
Windows == { <<d, d + w>> : d \in 3..5, w \in 0..1 } \cup { <<5, 7>> }
StayRanges == {<<0, 1>>, <<1, 2>>}      \* <<minDays, maxDays>>
OriginLists == {<<"DUB">>, <<"DUB", "STN">>, <<"DUB", "DUB">>}
CountryLists == {<<"Spain">>}
PassengerMixes == {[adults |-> 1, teens |-> 0, children |-> 0],
                   [adults |-> 1, teens |-> 0, children |-> 1]}
Budgets == {3}

\* the text a client sends for a date, a list
DateParam(d) ==
    MonthPrefix \o (IF d + FirstMonday < 10 THEN "0" ELSE "") \o ToString(d + FirstMonday)
RECURSIVE Join(_)
Join(list) ==
    IF Len(list) = 1 THEN list[1] ELSE list[1] \o "," \o Join(Tail(list))

\* the well-formed query strings the generator is explored on
QueryStrings ==
    { [tripType |-> tt,
       startDate |-> DateParam(w[1]), endDate |-> DateParam(w[2]),
       maxPrice |-> ToString(b),
       minDays |-> ToString(sr[1]), maxDays |-> ToString(sr[2]),
       originAirports |-> Join(oc), wantedCountries |-> Join(wc),
       adults |-> ToString(pm.adults), teens |-> ToString(pm.teens),
       children |-> ToString(pm.children)] :
      tt \in TripTypes, w \in Windows, b \in Budgets, sr \in StayRanges,
      oc \in OriginLists, wc \in CountryLists, pm \in PassengerMixes }

\* the response once the generator is handed to it (app.py 402-412); `open`
\* is history: the client is still connected
Streaming == [status |-> 200, error |-> "", open |-> TRUE]

\* the state in which generate_results starts for an accepted request
Init ==
    /\ args \in QueryStrings
    /\ args.tripType = "oneWay" => <<args.minDays, args.maxDays>> = <<"0", "1">>
    /\ search_flights(args).status = 200
    /\ response = Streaming
    /\ data = search_flights(args).data
    /\ total_passengers = search_flights(args).total_passengers
    /\ min_days = search_flights(args).min_days
    /\ max_days = search_flights(args).max_days
    /\ start_date = search_flights(args).start_date
    /\ end_date = search_flights(args).end_date
    /\ origin_codes = search_flights(args).origin_codes
    /\ (date(end_date) - date(start_date) + 1) * Len(origin_codes) <= MaxGrid
    /\ wanted_countries = search_flights(args).wanted_countries
    /\ maximum_price = search_flights(args).maximum_price
    /\ pc = "while"
    /\ current_date = start_date
    /\ origin_idx = 1
    /\ flights_found = FALSE
    /\ seen_flights = {}
    /\ pending = <<>>
    /\ calls = <<>>
    /\ stream = <<>>

----------------------------------------------------------------------------
(* generate_results *)

\* faulty variant: the minimum stay is not taken off the end date
latest_outbound_date_EndDate == end_date

\* app.py 309
latest_outbound_date == end_date - timedelta(min_days)

\* the record kept of one upstream query
Call(date_from, date_to, in_from, in_to, r) ==
    [origin |-> origin_codes[origin_idx], pos |-> origin_idx,
     date_from |-> date_from, date_to |-> date_to,
     in_from |-> in_from, in_to |-> in_to, ok |-> r.ok, trips |-> r.trips]

\* faulty variant: the date cursor is advanced inside the for-loop over origin_codes
NextOrigin_DateInsideLoop ==
    /\ pending' = <<>>
    /\ current_date' = current_date + timedelta(1)
    /\ IF origin_idx < Len(origin_codes)
       THEN origin_idx' = origin_idx + 1 /\ pc' = "query"
       ELSE origin_idx' = 1 /\ pc' = "while"

\* the for-loop over origin_codes moves on; after the last origin the date
\* cursor advances (app.py 300, 389) and the while condition is tested again
NextOrigin ==
    /\ pending' = <<>>
    /\ IF origin_idx < Len(origin_codes)
       THEN /\ origin_idx' = origin_idx + 1
            /\ pc' = "query"
            /\ UNCHANGED current_date
       ELSE /\ origin_idx' = 1
            /\ pc' = "while"
            /\ current_date' = current_date + timedelta(1)

\* app.py 248-251: the query raised; `continue` with the next origin
OneWayApiError == NextOrigin

\* faulty variant: the error ends the generator
ReturnError_Abort ==
    /\ pc' = "done"
    /\ pending' = <<>>
    /\ UNCHANGED <<origin_idx, current_date>>

\* app.py 386-388: anything in the try block raised; `continue`
ReturnError == NextOrigin

\* app.py 277-293; `trip` and `after` are history: the candidate serialised
\* and the number of queries issued when the event was yielded
OneWayEvent(trip) ==
    [type |-> "result",
     outbound |-> [origin |-> trip.origin, destination |-> trip.destination,
                   destinationFull |-> trip.destinationFull,
                   departureTime |-> isoformat(trip.departureTime)],
     inbound |-> [origin |-> trip.destination, destination |-> trip.origin,
                  originFull |-> trip.destinationFull,
                  departureTime |-> isoformat(trip.departureTime)],
     totalPrice |-> trip.price * total_passengers,
     trip |-> trip, after |-> Len(calls)]

\* app.py 348-384; `trip` and `after` as above
ReturnEvent(trip) ==
    [type |-> "result",
     outbound |-> [origin |-> trip.outbound.origin,
                   destination |-> trip.outbound.destination,
                   destinationFull |-> trip.outbound.destinationFull,
                   departureTime |-> isoformat(trip.outbound.departureTime)],
     inbound |-> [origin |-> trip.inbound.origin,
                  destination |-> trip.inbound.destination,
                  originFull |-> trip.inbound.destinationFull,
                  departureTime |-> isoformat(trip.inbound.departureTime)],
     totalPrice |-> trip.totalPrice * total_passengers,
     trip |-> trip, after |-> Len(calls)]

NoFlightsEvent ==
    [type |-> "NO_FLIGHTS", message |-> "No flights found matching your criteria"]

EndEvent == [type |-> "END"]

\* faulty variant: the one-way loop stops before the end date
OneWayWhile_BeforeEnd ==
    /\ pc = "while"
    /\ data.tripType = "oneWay"
    /\ IF current_date < end_date
       THEN pc' = "query" /\ origin_idx' = 1
       ELSE pc' = "done" /\ UNCHANGED origin_idx
    /\ UNCHANGED <<exchange, current_date, flights_found, seen_flights, pending,
                   calls, stream>>

\* app.py 236: the one-way while condition; the one-way branch ends without
\* yielding anything more
OneWayWhile ==
    /\ pc = "while"
    /\ data.tripType = "oneWay"
    /\ IF current_date <= end_date
       THEN pc' = "query" /\ origin_idx' = 1
       ELSE pc' = "done" /\ UNCHANGED origin_idx
    /\ UNCHANGED <<exchange, current_date, flights_found, seen_flights, pending,
                   calls, stream>>

\* app.py 238-263: one query, its error handling, the filter
OneWayQuery ==
    /\ pc = "query"
    /\ data.tripType = "oneWay"
    /\ \E r \in Responses(OneWayOffers(origin_codes[origin_idx], current_date)) :
         /\ calls' = Append(calls, Call(current_date, current_date + timedelta(1),
                                        current_date, current_date, r))
         /\ IF ~r.ok
            THEN OneWayApiError /\ UNCHANGED flights_found
            ELSE IF r.trips = <<>>
            THEN NextOrigin /\ UNCHANGED flights_found
            ELSE LET filtered_trips == SelectSeq(r.trips, PassesOneWay) IN
                 /\ flights_found' = Found(filtered_trips)
                 /\ IF filtered_trips = <<>>
                    THEN NextOrigin
                    ELSE /\ pending' = sorted(filtered_trips)
                         /\ pc' = "emit"
                         /\ UNCHANGED <<origin_idx, current_date>>
    /\ UNCHANGED <<exchange, seen_flights, stream>>

\* app.py 265-295: one iteration of the loop over the sorted batch
OneWayEmit ==
    /\ pc \in {"emit", "yield"}
    /\ data.tripType = "oneWay"
    /\ pending # <<>>
    /\ LET trip == Head(pending) IN
       IF flight_id(trip) \in seen_flights
       THEN /\ pc' = "emit"
            /\ UNCHANGED <<seen_flights, stream>>
       ELSE /\ seen_flights' = seen_flights \cup {flight_id(trip)}
            /\ stream' = Append(stream, OneWayEvent(trip))
            /\ pc' = "yield"
    /\ pending' = Tail(pending)
    /\ UNCHANGED <<exchange, current_date, origin_idx, flights_found, calls>>

\* the loop over the sorted batch is exhausted
EndBatch ==
    /\ pc \in {"emit", "yield"}
    /\ pending = <<>>
    /\ NextOrigin
    /\ UNCHANGED <<exchange, flights_found, seen_flights, calls, stream>>

\* app.py 311: the return-family while condition, for a date that is queried
ReturnWhile ==
    /\ pc = "while"
    /\ data.tripType # "oneWay"
    /\ IF current_date <= latest_outbound_date
       THEN /\ weekend_mode = "none" \/ is_valid_weekend_day(current_date, weekend_mode, TRUE)
            /\ pc' = "query" /\ origin_idx' = 1
       ELSE pc' = "completion" /\ UNCHANGED origin_idx
    /\ UNCHANGED <<exchange, current_date, flights_found, seen_flights, pending,
                   calls, stream>>

\* faulty variant: the skipped day does not advance the cursor
SkipDay_NoAdvance ==
    /\ pc = "while"
    /\ data.tripType # "oneWay"
    /\ current_date <= latest_outbound_date
    /\ weekend_mode # "none"
    /\ ~is_valid_weekend_day(current_date, weekend_mode, TRUE)
    /\ UNCHANGED <<exchange, current_date, pc, origin_idx, flights_found,
                   seen_flights, pending, calls, stream>>

\* app.py 313-315: a non-qualifying day of a weekend search is skipped
SkipDay ==
    /\ pc = "while"
    /\ data.tripType # "oneWay"
    /\ current_date <= latest_outbound_date
    /\ weekend_mode # "none"
    /\ ~is_valid_weekend_day(current_date, weekend_mode, TRUE)
    /\ current_date' = current_date + timedelta(1)
    /\ UNCHANGED <<exchange, pc, origin_idx, flights_found, seen_flights, pending,
                   calls, stream>>

\* app.py 318-344, 386-388: one query, the filter, the catch-all handler
ReturnQuery ==
    /\ pc = "query"
    /\ data.tripType # "oneWay"
    /\ \E r \in Responses(ReturnOffers(origin_codes[origin_idx], current_date)) :
         /\ calls' = Append(calls, Call(current_date, current_date,
                                        current_date + timedelta(min_days),
                                        Min(end_date, current_date + timedelta(max_days)), r))
         /\ IF ~r.ok
            THEN ReturnError /\ UNCHANGED flights_found
            ELSE LET filtered_trips == SelectSeq(r.trips, PassesReturn) IN
                 /\ flights_found' = Found(filtered_trips)
                 /\ IF filtered_trips = <<>>
                    THEN NextOrigin
                    ELSE /\ pending' = sorted(filtered_trips)
                         /\ pc' = "emit"
                         /\ UNCHANGED <<origin_idx, current_date>>
    /\ UNCHANGED <<exchange, seen_flights, stream>>

\* faulty variant: a pairing already emitted is skipped, as in the one-way branch
ReturnEmit_Dedup ==
    /\ pc \in {"emit", "yield"}
    /\ data.tripType # "oneWay"
    /\ pending # <<>>
    /\ LET id == flight_id(Head(pending).outbound) \o "/"
                 \o flight_id(Head(pending).inbound) IN
         IF id \in seen_flights
         THEN pc' = "emit" /\ UNCHANGED <<seen_flights, stream>>
         ELSE /\ seen_flights' = seen_flights \cup {id}
              /\ stream' = Append(stream, ReturnEvent(Head(pending)))
              /\ pc' = "yield"
    /\ pending' = Tail(pending)
    /\ UNCHANGED <<exchange, current_date, origin_idx, flights_found, calls>>

\* app.py 346-385: one iteration of the loop over the sorted batch
ReturnEmit ==
    /\ pc \in {"emit", "yield"}
    /\ data.tripType # "oneWay"
    /\ pending # <<>>
    /\ stream' = Append(stream, ReturnEvent(Head(pending)))
    /\ pending' = Tail(pending)
    /\ pc' = "yield"
    /\ UNCHANGED <<exchange, current_date, origin_idx, flights_found,
                   seen_flights, calls>>

\* app.py 392-397
EmitNoFlights ==
    /\ pc = "completion"
    /\ ~flights_found
    /\ stream' = Append(stream, NoFlightsEvent)
    /\ pc' = "yield_nf"
    /\ UNCHANGED <<exchange, current_date, origin_idx, flights_found,
                   seen_flights, pending, calls>>

\* app.py 400; after this yield the generator only returns
EmitEnd ==
    /\ \/ pc = "completion" /\ flights_found
       \/ pc = "yield_nf"
    /\ stream' = Append(stream, EndEvent)
    /\ pc' = "done"
    /\ UNCHANGED <<exchange, current_date, origin_idx, flights_found,
                   seen_flights, pending, calls>>

\* faulty variant: the handler of the try block catches the cancellation and
\* goes on with the next origin
Close_Swallowed ==
    /\ pc \in {"yield", "yield_nf"}
    /\ response' = [response EXCEPT !.open = FALSE]
    /\ IF pc = "yield"
       THEN NextOrigin
       ELSE pc' = "closed" /\ UNCHANGED <<current_date, origin_idx, pending>>
    /\ UNCHANGED <<request, flights_found, seen_flights, calls, stream>>

\* the client goes away while the generator is suspended at a yield: the
\* generator is closed (GeneratorExit is not an Exception, so neither
\* handler at app.py 296, 386 catches it)
Close ==
    /\ pc \in {"yield", "yield_nf"}
    /\ pc' = "closed"
    /\ response' = [response EXCEPT !.open = FALSE]
    /\ UNCHANGED <<request, current_date, origin_idx, flights_found,
                   seen_flights, pending, calls, stream>>

Next ==
    \/ OneWayWhile
    \/ OneWayQuery
    \/ OneWayEmit
    \/ EndBatch
    \/ ReturnWhile
    \/ SkipDay
    \/ ReturnQuery
    \/ ReturnEmit
    \/ EmitNoFlights
    \/ EmitEnd
    \/ Close

Spec == Init /\ [][Next]_vars

----------------------------------------------------------------------------
(* search_flights on query strings of any shape *)

\* a query string that meets every stated condition, for dates Friday 7 to
\* Saturday 8 June 2024
WellFormed(tt) ==
    [tripType |-> tt, startDate |-> "2024-06-07", endDate |-> "2024-06-08",
     maxPrice |-> "3", minDays |-> "0", maxDays |-> "1",
     originAirports |-> "DUB", wantedCountries |-> "Spain",
     adults |-> "1", teens |-> "0", children |-> "1"]

\* one parameter sent with another text
Changes ==
    { "tripType" :> "roundTrip",
      "startDate" :> "2024-06-06", "startDate" :> "07/06/2024", "startDate" :> "",
      "endDate" :> "2024-06-31", "endDate" :> "",
      "maxPrice" :> "-1", "maxPrice" :> "cheap",
      "minDays" :> "1", "minDays" :> "-1", "minDays" :> "two", "maxDays" :> "",
      "originAirports" :> "", "originAirports" :> "dub",
      "originAirports" :> "DUB,",
      "wantedCountries" :> "", "wantedCountries" :> "spain",
      "wantedCountries" :> "Italy,Spain",
      "adults" :> "0", "adults" :> "one", "teens" :> "-1", "children" :> "0" }

\* parameters left out of the query string
Drops == { {key} : key \in DataKeys } \cup { {"endDate", "minDays", "maxDays"} }

Without(a, keys) == [key \in DOMAIN a \ keys |-> a[key]]

RawRequests ==
    { WellFormed(tt) : tt \in TripTypes } \cup
    { c @@ WellFormed(tt) : tt \in TripTypes, c \in Changes } \cup
    { Without(WellFormed(tt), d) : tt \in TripTypes, d \in Drops }

\* nothing has been sent back yet
Unanswered == [status |-> 0, error |-> "", open |-> TRUE]

InitRequest ==
    /\ args \in RawRequests
    /\ response = Unanswered
    /\ pc = "request"
    /\ data = [tripType |-> "None", adults |-> 0, teens |-> 0, children |-> 0]
    /\ total_passengers = 0
    /\ min_days = 0
    /\ max_days = 0
    /\ start_date = 0
    /\ end_date = 0
    /\ origin_codes = <<>>
    /\ wanted_countries = <<>>
    /\ maximum_price = 0
    /\ current_date = 0
    /\ origin_idx = 1
    /\ flights_found = FALSE
    /\ seen_flights = {}
    /\ pending = <<>>
    /\ calls = <<>>
    /\ stream = <<>>

\* app.py 153-223, 402-419: the request is answered with an error, or the
\* generator is built and the stream begins
SearchFlights ==
    /\ pc = "request"
    /\ IF search_flights(args).status = 200
       THEN /\ response' = Streaming
            /\ data' = search_flights(args).data
            /\ total_passengers' = search_flights(args).total_passengers
            /\ min_days' = search_flights(args).min_days
            /\ max_days' = search_flights(args).max_days
            /\ start_date' = search_flights(args).start_date
            /\ end_date' = search_flights(args).end_date
            /\ origin_codes' = search_flights(args).origin_codes
            /\ wanted_countries' = search_flights(args).wanted_countries
            /\ maximum_price' = search_flights(args).maximum_price
            /\ current_date' = search_flights(args).start_date
            /\ pc' = "while"
       ELSE /\ response' = [status |-> search_flights(args).status,
                            error |-> search_flights(args).error,
                            open |-> FALSE]
            /\ pc' = "answered"
            /\ UNCHANGED <<data, total_passengers, min_days, max_days, start_date,
                           end_date, origin_codes, wanted_countries, maximum_price,
                           current_date>>
    /\ UNCHANGED <<args, origin_idx, flights_found, seen_flights, pending, calls,
                   stream>>

NextRequest ==
    \/ SearchFlights
    \/ Next

SpecRequest == InitRequest /\ [][NextRequest]_vars

\* the generator is run by the server until it returns or is closed, and
\* every upstream query returns or fails: a step that can be taken is taken
FairRequest == SpecRequest /\ WF_vars(NextRequest)

----------------------------------------------------------------------------
(* Vocabulary of the properties *)

Range(f) == { f[x] : x \in DOMAIN f }

OneWay == data.tripType = "oneWay"
ReturnFamily == data.tripType # "oneWay"

\* the generator ran to the end of its code (it was not closed by the client)
Exhausted == pc = "done"

Results == { i \in 1..Len(stream) : stream[i].type = "result" }
NoFlights == { i \in 1..Len(stream) : stream[i].type = "NO_FLIGHTS" }
Ends == { i \in 1..Len(stream) : stream[i].type = "END" }

\* the candidates of query k that pass the filter of the run's trip type
Survivors(k) ==
    IF ~calls[k].ok THEN <<>>
    ELSE IF OneWay THEN SelectSeq(calls[k].trips, PassesOneWay)
    ELSE SelectSeq(calls[k].trips, PassesReturn)

\* (origin code, destination code, departure timestamp) of a flight
Key(flight) == <<flight.origin, flight.destination, flight.departureTime>>

\* the same, read off an emitted one-way event
EventKey(e) == <<e.outbound.origin, e.outbound.destination, e.trip.departureTime>>

\* the day the query that produced result event i was issued for
DateOf(i) == calls[stream[i].after].date_from

----------------------------------------------------------------------------
(* C1 - as claimed: a run of any trip type that is iterated to exhaustion   *)
(* has emitted exactly one END, and END is the last event of the stream.    *)
(* The one-way branch ends without yielding END.                            *)
C1_EndClosesEveryRun ==
    Exhausted =>
        /\ Cardinality(Ends) = 1
        /\ stream[Len(stream)].type = "END"

(* C2 - a return-family run iterated to exhaustion holds NO_FLIGHTS iff no  *)
(* candidate of any query survived the filter; NO_FLIGHTS is emitted at     *)
(* most once, never in a stream with a result event, and then it is the     *)
(* last event but one, followed by END.                                     *)
C2_NoFlightsIffNothingSurvived ==
    ReturnFamily =>
        /\ Cardinality(NoFlights) <= 1
        /\ NoFlights # {} => Results = {}
        /\ Exhausted =>
             /\ NoFlights # {} <=> \A k \in 1..Len(calls) : Survivors(k) = <<>>
             /\ NoFlights # {} =>
                  /\ NoFlights = {Len(stream) - 1}
                  /\ stream[Len(stream)].type = "END"

\* an exhausted return-family run in which a query returned candidates that
\* all failed the filter, and NO_FLIGHTS was emitted
C2_Witness ==
    /\ ReturnFamily /\ Exhausted
    /\ NoFlights # {}
    /\ \E k \in 1..Len(calls) : calls[k].trips # <<>>

(* C3 - in a one-way run no two result events carry the same (origin,       *)
(* destination, departure timestamp), and once the run is exhausted every   *)
(* candidate that passed the price and country filters has exactly one      *)
(* result event with its key, however many queries returned it.             *)
C3_OneWayDedup ==
    OneWay =>
        /\ \A i, j \in Results :
             i # j => EventKey(stream[i]) # EventKey(stream[j])
        /\ Exhausted =>
             \A k \in 1..Len(calls) : \A n \in 1..Len(Survivors(k)) :
                 Cardinality({ i \in Results :
                     EventKey(stream[i]) = Key(Survivors(k)[n]) }) = 1

\* an exhausted one-way run in which two different queries returned a
\* passing candidate with the same key
C3_Witness ==
    /\ OneWay /\ Exhausted
    /\ \E k1, k2 \in 1..Len(calls) :
         /\ k1 < k2
         /\ Survivors(k1) # <<>> /\ Survivors(k2) # <<>>
         /\ Key(Survivors(k1)[1]) = Key(Survivors(k2)[1])

(* C4 - the result events of one (date, origin) batch are emitted in        *)
(* non-decreasing order of total price.                                     *)
C4_BatchSortedByTotalPrice ==
    \A i, j \in Results :
        (i < j /\ stream[i].after = stream[j].after)
            => stream[i].totalPrice <= stream[j].totalPrice

\* two results of one batch with different total prices, which the source
\* had returned dearest first
C4_Witness ==
    \E i, j \in Results :
        /\ i < j /\ stream[i].after = stream[j].after
        /\ stream[i].totalPrice < stream[j].totalPrice
        /\ calls[stream[i].after].trips[1] = stream[j].trip

(* C5 - a result event comes from the query issued last; every result of a  *)
(* query for a date is emitted before any query for a later date is issued  *)
(* and before any result of a later date; queries never go back in date,    *)
(* and within a date the origins are queried in the caller's order.         *)
C5_DateThenOriginOrder ==
    /\ \A i \in Results :
         /\ stream[i].after \in 1..Len(calls)
         /\ stream[i].trip \in Range(calls[stream[i].after].trips)
         /\ \A k \in 1..Len(calls) :
              calls[k].date_from > DateOf(i) => stream[i].after < k
         /\ \A j \in Results : DateOf(i) < DateOf(j) => i < j
    /\ \A k \in 1..Len(calls) :
         /\ calls[k].origin = origin_codes[calls[k].pos]
         /\ \/ calls[k].pos = 1
            \/ /\ k > 1
               /\ calls[k - 1].pos = calls[k].pos - 1
               /\ calls[k - 1].date_from = calls[k].date_from
         /\ k > 1 => calls[k - 1].date_from <= calls[k].date_from

\* results of two dates in one stream, from a request with two origins
C5_Witness ==
    /\ Len(origin_codes) = 2
    /\ \E i, j \in Results : DateOf(i) < DateOf(j)
    /\ \E k \in 1..Len(calls) : calls[k].pos = 2

----------------------------------------------------------------------------
\* the last day the while loop of the run's branch lets through
LastDay == IF OneWay THEN date(end_date) ELSE date(end_date) - min_days

\* outbound and inbound weekdays of the two weekend modes (Monday is 0)
OutboundDays == IF data.tripType = "weekend" THEN {4, 5} ELSE {3, 4, 5}
InboundDays == IF data.tripType = "weekend" THEN {5, 6} ELSE {6, 0}

\* the dates a run has to query: every day of the loop's range and, in the
\* weekend modes, of a valid outbound weekday
QueryDates ==
    { strptime(d) : d \in { x \in date(start_date)..LastDay :
          data.tripType \in WeekendModes => (x % 7) \in OutboundDays } }

\* a return-family candidate within budget, to a wanted country, back in time
InBudgetWantedAndBack(trip) ==
    /\ trip.totalPrice * total_passengers <= maximum_price
    /\ AnyCountryIn(trip.outbound.destinationFull)
    /\ date(trip.inbound.departureTime) <= date(end_date)

(* C6 - a failed query yields no event and does not end the run: once the   *)
(* run is exhausted every origin position of every date to query has been   *)
(* queried, every survivor of the queries that succeeded has its result     *)
(* event, and a return-family run still ends with its one END.              *)
C6_FailureDoesNotAbort ==
    /\ \A i \in Results : calls[stream[i].after].ok
    /\ (Exhausted /\ \E k \in 1..Len(calls) : ~calls[k].ok) =>
         /\ { <<calls[k].date_from, calls[k].pos>> : k \in 1..Len(calls) }
                = QueryDates \X (1..Len(origin_codes))
         /\ \A k \in 1..Len(calls) : \A n \in 1..Len(Survivors(k)) :
              \E i \in Results :
                  IF OneWay THEN EventKey(stream[i]) = Key(Survivors(k)[n])
                  ELSE stream[i].after = k /\ stream[i].trip = Survivors(k)[n]
         /\ ReturnFamily =>
              /\ Cardinality(Ends) = 1
              /\ stream[Len(stream)].type = "END"

\* an exhausted run whose first origin failed on the first date, with a
\* result from the second origin of that date and one from a later date
C6_Witness ==
    /\ Exhausted
    /\ Len(calls) >= 3
    /\ ~calls[1].ok
    /\ \E i, j \in Results :
         /\ stream[i].after = 2
         /\ calls[2].date_from = calls[1].date_from
         /\ DateOf(j) > calls[1].date_from

(* C7 - a weekend run never queries a date that is not a Friday or          *)
(* Saturday, a longWeekend run never one that is not a Thursday, Friday or  *)
(* Saturday; the step taken at such a date inside the loop's range moves    *)
(* the date cursor on by one day and issues no query.                       *)
C7_WeekendQueriesOnlyOutboundDays ==
    /\ [](data.tripType \in WeekendModes =>
            \A k \in 1..Len(calls) : weekday(calls[k].date_from) \in OutboundDays)
    /\ [][(/\ data.tripType \in WeekendModes
           /\ pc = "while"
           /\ date(current_date) <= LastDay
           /\ weekday(current_date) \notin OutboundDays)
          => (/\ current_date' = current_date + HoursPerDay
              /\ calls' = calls)]_vars

\* a weekend-mode run that skipped its first day and then issued a query
C7_Witness ==
    /\ data.tripType \in WeekendModes
    /\ calls # <<>>
    /\ calls[1].date_from > start_date

(* C8 - a pair emitted in weekend mode leaves on a Friday or Saturday and   *)
(* comes back on a Saturday or Sunday; one emitted in longWeekend mode      *)
(* leaves Thursday to Saturday and comes back on a Sunday or Monday; in     *)
(* return mode no weekday is rejected: every candidate within budget, to a  *)
(* wanted country and back by the end date is emitted.                      *)
C8_WeekendPairsOnly ==
    /\ data.tripType \in WeekendModes =>
         \A i \in Results :
             /\ weekday(stream[i].trip.outbound.departureTime) \in OutboundDays
             /\ weekday(stream[i].trip.inbound.departureTime) \in InboundDays
    /\ (data.tripType = "return" /\ Exhausted) =>
         \A k \in 1..Len(calls) : \A t \in Range(calls[k].trips) :
             InBudgetWantedAndBack(t) =>
                 \E i \in Results : stream[i].after = k /\ stream[i].trip = t

\* a weekend run that emitted a pair and dropped a Sunday-outbound candidate
\* that met every other condition
C8_Witness ==
    /\ data.tripType = "weekend"
    /\ Results # {}
    /\ \E k \in 1..Len(calls) : \E t \in Range(calls[k].trips) :
         /\ InBudgetWantedAndBack(t)
         /\ weekday(t.outbound.departureTime) = 6
         /\ \A i \in Results : stream[i].trip # t

(* C9 - as claimed: in an exhausted run every (date to query, origin code)  *)
(* pair has been sent to the price source exactly once.  The origin list    *)
(* is iterated as given, so a code listed twice is queried twice per date.  *)
C9_EachPairQueriedOnce ==
    Exhausted =>
        \A d \in QueryDates : \A o \in Range(origin_codes) :
            Cardinality({ k \in 1..Len(calls) :
                calls[k].date_from = d /\ calls[k].origin = o }) = 1

(* C10 - the total price of every result event is the candidate's           *)
(* per-person price times adults + teens + children and is at most          *)
(* maxPrice; the passenger total is that sum and no step changes it.        *)
C10_BudgetAndTotalPrice ==
    /\ [](/\ total_passengers = data.adults + data.teens + data.children
          /\ \A i \in Results :
               LET perPerson == IF OneWay THEN stream[i].trip.price
                                ELSE stream[i].trip.totalPrice
               IN /\ stream[i].totalPrice
                        = perPerson * (data.adults + data.teens + data.children)
                  /\ stream[i].totalPrice <= maximum_price)
    /\ [][total_passengers' = total_passengers /\ data' = data]_vars

\* a one-way result for two passengers, from a batch in which a flight whose
\* per-person price fits the budget was dropped because its total does not
C10_Witness ==
    /\ OneWay
    /\ total_passengers = 2
    /\ \E i \in Results : \E t \in Range(calls[stream[i].after].trips) :
         /\ t.price <= maximum_price
         /\ t.price * 2 > maximum_price
         /\ AnyCountryIn(t.destinationFull)

----------------------------------------------------------------------------
(* Validation *)

Answered == pc # "request"

\* a parameter that is present and reads as an integer not below `least`
AtLeast(a, key, least) ==
    /\ Present(a, key)
    /\ int(a[key]).raises = "no"
    /\ int(a[key]).value >= least

WellFormedDate(a, key) == Present(a, key) /\ ParseDay(a[key]).raises = "no"

\* for oneWay a stay parameter or the end date may be left out
OptionalForOneWay(a, key) == ~Present(a, key) /\ get(a, "tripType", "None") = "oneWay"

\* the conditions a request has to meet: passenger counts, budget, dates,
\* stay lengths and origin codes
MeetsConditions(a) ==
    /\ AtLeast(a, "adults", 1)
    /\ AtLeast(a, "teens", 0)
    /\ AtLeast(a, "children", 0)
    /\ AtLeast(a, "maxPrice", 0)
    /\ WellFormedDate(a, "startDate")
    /\ WellFormedDate(a, "endDate") \/ OptionalForOneWay(a, "endDate")
    /\ AtLeast(a, "minDays", 0) \/ OptionalForOneWay(a, "minDays")
    /\ AtLeast(a, "maxDays", 0) \/ OptionalForOneWay(a, "maxDays")
    /\ \A code \in Range(split(get(a, "originAirports", ""))) :
         code # "" => validate_airport_code(code)

\* C11: a request that meets the conditions on passenger counts, budget,
\* dates and origin codes is accepted and streams, a oneWay request without
\* minDays, maxDays or endDate included; a request that violates them is
\* answered with status 400, never 500.
C11_ValidationAcceptsOrAnswers400 ==
    Answered =>
        /\ MeetsConditions(args) => response.status = 200
        /\ ~MeetsConditions(args) => response.status = 400

\* a required parameter (app.py 193-195) is not in the query string
LacksRequiredField(a) == \E field \in required_fields(a) : ~Present(a, field)

\* C12: a request whose originAirports or wantedCountries is empty or absent,
\* or which lacks a required field, is answered with status 400, and no
\* upstream query is issued and no event streamed for it.
C12_EmptyOrMissingIsRejected ==
    /\ Answered
    /\ \/ ~Truthy(args, "originAirports")
       \/ ~Truthy(args, "wantedCountries")
       \/ LacksRequiredField(args)
    => /\ response.status = 400
       /\ calls = <<>>
       /\ stream = <<>>

----------------------------------------------------------------------------
(* Completion and filtering *)

\* C13: a one-way run iterated to exhaustion of its dates and origins that
\* emitted no result event has emitted a NO_FLIGHTS event.
C13_OneWayNoFlights ==
    OneWay /\ Exhausted /\ Results = {} => NoFlights # {}

\* the batch of query k has been emitted to its end
BatchDone(k) ==
    k < Len(calls) \/ pc \in {"while", "query", "completion", "yield_nf", "done"}

\* `name` holds `country` as a run of consecutive characters, letter case
\* included
Holds(name, country) ==
    \E i \in 0..Len(name) : \E j \in i..Len(name) : SubSeq(name, i + 1, j) = country

\* the outbound flight of a candidate, its price for one passenger
OutboundOf(trip) == IF OneWay THEN trip ELSE trip.outbound
PriceOf(trip) == IF OneWay THEN trip.price ELSE trip.totalPrice

\* the predicates that apply whatever was emitted before: budget, country,
\* weekday pair in a weekend mode, return by the end date
Eligible(trip) ==
    /\ PriceOf(trip) * total_passengers <= maximum_price
    /\ \E c \in Range(wanted_countries) : Holds(OutboundOf(trip).destinationFull, c)
    /\ data.tripType \in WeekendModes =>
         /\ weekday(trip.outbound.departureTime) \in OutboundDays
         /\ weekday(trip.inbound.departureTime) \in InboundDays
    /\ ReturnFamily => date(trip.inbound.departureTime) <= date(end_date)

\* in a one-way run: the key of candidate n of query k was emitted before
\* its turn, by an earlier query or, in its own batch, by a candidate that
\* is cheaper or as cheap and returned ahead of it
KeyEmittedEarlier(k, n) ==
    \/ \E i \in Results : stream[i].after < k
                          /\ EventKey(stream[i]) = Key(calls[k].trips[n])
    \/ \E m \in 1..Len(calls[k].trips) :
         /\ m # n
         /\ Eligible(calls[k].trips[m])
         /\ Key(calls[k].trips[m]) = Key(calls[k].trips[n])
         /\ \/ calls[k].trips[m].price < calls[k].trips[n].price
            \/ calls[k].trips[m].price = calls[k].trips[n].price /\ m < n

Qualifies(k, n) ==
    /\ Eligible(calls[k].trips[n])
    /\ OneWay => ~KeyEmittedEarlier(k, n)

\* C14: a candidate returned by a successful query is emitted in that
\* query's batch if and only if it is within budget in total, its
\* destination name holds a wanted country (case-sensitive), its weekday
\* pair is valid in a weekend mode, its inbound date is not after the end
\* date in a return-family run, and in a one-way run its key was not emitted
\* earlier: every returned candidate has as many result events in the batch
\* as it has qualifying occurrences in the returned list.
C14_EmittedIffAllPredicates ==
    \A k \in 1..Len(calls) :
        BatchDone(k) =>
            \A t \in Range(calls[k].trips) :
                Cardinality({ i \in Results : stream[i].after = k /\ stream[i].trip = t })
                = Cardinality({ n \in 1..Len(calls[k].trips) :
                                  calls[k].trips[n] = t /\ Qualifies(k, n) })

\* a one-way run in which a candidate was emitted and a later query returned
\* it again: eligible, and dropped only because its key was emitted earlier
C14_Witness ==
    /\ OneWay
    /\ \E k \in 2..Len(calls) :
         /\ BatchDone(k)
         /\ \E n \in 1..Len(calls[k].trips) :
              /\ Eligible(calls[k].trips[n])
              /\ ~Qualifies(k, n)
              /\ \E i \in Results : /\ stream[i].after < k
                                    /\ stream[i].trip = calls[k].trips[n]
              /\ ~\E i \in Results : stream[i].after = k

\* C15: in a return-family run the inbound flight of every emitted pair
\* departs on a calendar date that is not after the end date of the request.
C15_InboundByEndDate ==
    ReturnFamily =>
        \A i \in Results :
            date(stream[i].trip.inbound.departureTime) <= date(end_date)

\* a pair was emitted whose inbound leaves on the end date itself, after
\* midnight, from a batch in which another pair within budget and to a wanted
\* country was dropped because its inbound leaves the day after
C15_Witness ==
    /\ ReturnFamily
    /\ \E i \in Results :
         /\ date(stream[i].trip.inbound.departureTime) = date(end_date)
         /\ stream[i].trip.inbound.departureTime > end_date
         /\ \E t \in Range(calls[stream[i].after].trips) :
              /\ date(t.inbound.departureTime) = date(end_date) + 1
              /\ t.totalPrice * total_passengers <= maximum_price
              /\ AnyCountryIn(t.outbound.destinationFull)

----------------------------------------------------------------------------
(* Candidate dates *)

\* the days on which a query was issued, in the order of the queries
QueriedDays == [k \in 1..Len(calls) |-> date(calls[k].date_from)]

\* C16: in a return-family run the departure dates are taken in ascending
\* order from the start date, none is after end - minDays, and a run
\* iterated to exhaustion has gone through every day up to end - minDays;
\* when end - minDays is before the start date no query is issued and the
\* exhausted run's stream is NO_FLIGHTS followed by END.
C16_ReturnDatesEndAtEndMinusMinDays ==
    ReturnFamily =>
        /\ \A k \in 1..Len(calls) :
             /\ date(start_date) <= QueriedDays[k]
             /\ QueriedDays[k] <= date(end_date) - min_days
             /\ \A l \in k..Len(calls) : QueriedDays[k] <= QueriedDays[l]
        /\ Exhausted =>
             /\ date(current_date) > date(end_date) - min_days
             /\ \A d \in date(start_date)..(date(end_date) - min_days) :
                  \/ d \in Range(QueriedDays)
                  \/ data.tripType \in WeekendModes /\ (d % 7) \notin OutboundDays
        /\ date(end_date) - min_days < date(start_date) =>
             /\ calls = <<>>
             /\ Exhausted => stream = <<NoFlightsEvent, EndEvent>>

\* an exhausted return-family run with a minimum stay of a day or more whose
\* last query was for the day end - minDays, the days after it up to the end
\* date having been left out
C16_Witness ==
    /\ ReturnFamily /\ Exhausted
    /\ min_days >= 1
    /\ calls # <<>>
    /\ QueriedDays[Len(calls)] = date(end_date) - min_days
    /\ data.tripType \in WeekendModes => (date(end_date) % 7) \in OutboundDays

\* an exhausted return-family run whose window is shorter than the minimum
\* stay: nothing was queried
C16_EmptySequence ==
    /\ ReturnFamily /\ Exhausted
    /\ date(end_date) - min_days < date(start_date)

\* query k was issued for day d and the origin at position p of the list
QueryFor(k, d, p) == QueriedDays[k] = d /\ calls[k].pos = p

\* day d is one the mode of the run departs on
DepartureDay(d) == data.tripType \in WeekendModes => (d % 7) \in OutboundDays

\* C17 - as claimed: in an exhausted oneWay, weekend or longWeekend run every
\* calendar date from start to end inclusive (in the weekend modes: every
\* such date that is a valid outbound weekday) was queried for every origin.
\* The weekend modes stop at end - minDays.
C17_EveryDateFromStartToEnd ==
    Exhausted /\ data.tripType \in {"oneWay", "weekend", "longWeekend"} =>
        \A d \in date(start_date)..date(end_date) :
            DepartureDay(d) =>
                \A p \in 1..Len(origin_codes) :
                    \E k \in 1..Len(calls) : QueryFor(k, d, p)

\* the last day of the sequence: the end date for oneWay, end - minDays for
\* the weekend modes
LastDepartureDay == IF OneWay THEN date(end_date) ELSE date(end_date) - min_days

\* C17 - amended: in an exhausted oneWay run every calendar date from start
\* to end inclusive was queried for every origin; in an exhausted weekend or
\* longWeekend run every valid outbound weekday from start to end - minDays
\* inclusive was queried for every origin; no other date was queried.
C17_EveryDateOfTheSequence ==
    data.tripType \in {"oneWay", "weekend", "longWeekend"} =>
        /\ \A k \in 1..Len(calls) :
             /\ QueriedDays[k] \in date(start_date)..LastDepartureDay
             /\ DepartureDay(QueriedDays[k])
        /\ Exhausted =>
             \A d \in date(start_date)..LastDepartureDay :
                 DepartureDay(d) =>
                     \A p \in 1..Len(origin_codes) :
                         \E k \in 1..Len(calls) : QueryFor(k, d, p)

\* an exhausted weekend-mode run with a minimum stay of a day or more that
\* queried a valid outbound weekday for every origin and did not query the
\* end date, a valid outbound weekday too
C17_Witness ==
    /\ Exhausted
    /\ data.tripType \in WeekendModes
    /\ min_days >= 1
    /\ Len(origin_codes) > 1
    /\ calls # <<>>
    /\ DepartureDay(date(end_date))
    /\ date(end_date) \notin Range(QueriedDays)

----------------------------------------------------------------------------
(* Disconnect *)

\* C18: once the client has disconnected (the generator was closed at a
\* yield) no further upstream query is issued and no further event is
\* emitted, NO_FLIGHTS and END included: from the disconnect on, the queries
\* and the stream stay as they are.
C18_NothingAfterDisconnect ==
    [][~response'.open => calls' = calls /\ stream' = stream]_vars

\* the client disconnected after a result event, with candidates of the
\* batch not yet emitted and days or origins not yet queried
C18_Witness ==
    /\ ~response.open
    /\ pc = "closed"
    /\ stream # <<>>
    /\ pending # <<>>
    /\ origin_idx < Len(origin_codes)
    /\ Ends = {}

----------------------------------------------------------------------------
(* Return-family batches and query windows *)

\* how many candidates of the first k queries pass every predicate
RECURSIVE EligibleUpTo(_)
EligibleUpTo(k) ==
    IF k = 0 THEN 0
    ELSE EligibleUpTo(k - 1)
         + Cardinality({ n \in 1..Len(calls[k].trips) : Eligible(calls[k].trips[n]) })

\* C19: return-family emission does not deduplicate: an exhausted run has as
\* many result events as candidates passed the filter over all its queries,
\* a pairing returned by several queries being emitted once for each.
C19_ReturnEmitsEverySurvivor ==
    ReturnFamily /\ Exhausted => Cardinality(Results) = EligibleUpTo(Len(calls))

\* an exhausted return-family run in which the queries of two different
\* days returned the same pairing and it was emitted twice
C19_Witness ==
    /\ ReturnFamily /\ Exhausted
    /\ \E i, j \in Results :
         /\ i # j
         /\ stream[i].trip = stream[j].trip
         /\ DateOf(i) # DateOf(j)

\* the latest inbound departure asked for by a query for the day that
\* begins at `day`
LatestInbound(day) ==
    IF day + max_days * HoursPerDay <= end_date
    THEN day + max_days * HoursPerDay
    ELSE end_date

\* C20: every return-family query asks for inbound departures from
\* date + minDays to min(end, date + maxDays); when 0 <= minDays <= maxDays
\* that window is not empty and lies inside the window of the request.
C20_InboundWindow ==
    ReturnFamily =>
        \A k \in 1..Len(calls) :
            /\ calls[k].in_from = calls[k].date_from + min_days * HoursPerDay
            /\ calls[k].in_to = LatestInbound(calls[k].date_from)
            /\ 0 <= min_days /\ min_days <= max_days =>
                 /\ calls[k].in_from <= calls[k].in_to
                 /\ start_date <= calls[k].in_from
                 /\ calls[k].in_to <= end_date

\* a return-family run with one query whose window was cut at the end date
\* and one whose window spans more than a day
C20_Witness ==
    /\ ReturnFamily
    /\ \E k \in 1..Len(calls) :
         /\ calls[k].date_from + max_days * HoursPerDay > end_date
         /\ calls[k].in_to = end_date
    /\ \E k \in 1..Len(calls) : calls[k].in_from < calls[k].in_to

----------------------------------------------------------------------------
(* Query dates and termination *)

\* C21: for an accepted request of any trip type, every date an upstream
\* query is issued for lies in the requested window, start <= date <= end.
C21_QueriesWithinWindow ==
    \A k \in 1..Len(calls) :
        /\ date(start_date) <= QueriedDays[k]
        /\ QueriedDays[k] <= date(end_date)

\* the same for requests whose minimum stay is not negative
C21_WithinWindowUnlessNegativeStay ==
    min_days >= 0 => C21_QueriesWithinWindow

\* the run is over: the generator returned, was closed, or was never built
Terminated == pc \in {"done", "closed", "answered"}

\* C22: when every upstream query returns or fails, the run terminates after
\* finitely many queries; the date cursor never moves back, and every time
\* the while condition is tested again the cursor is strictly later than
\* before, also after a skipped weekend date and after a date on which every
\* origin's query failed.
C22_CursorAdvancesAndRunTerminates ==
    /\ [][pc # "request" =>
            /\ current_date' >= current_date
            /\ pc' = "while" => current_date' > current_date]_vars
    /\ <>Terminated

\* an exhausted weekend run that skipped its first day, not an outbound
\* weekday, and went on after a date whose only origin's query failed
C22_Witness ==
    /\ Exhausted
    /\ data.tripType \in WeekendModes
    /\ (date(start_date) % 7) \notin OutboundDays
    /\ \E k \in 1..Len(calls) : ~calls[k].ok /\ k < Len(calls)
    /\ date(current_date) > date(end_date) - min_days

====
